---- MODULE Spec2Model ----
(***************************************************************************)
(* A model of the bible.com scraper (src/src/main.py): the catalog         *)
(* resolver fetch_books_and_chapters, the fetcher fetch_json_with_retries, *)
(* the extractor extract_verses_from_chapter_html and the per-book loop of *)
(* scrape_version.                                                         *)
(*                                                                         *)
(* Representation.  A Python str is a sequence of one-character strings.   *)
(* A decoded JSON value is a record [t, n, s, kids] (t the type tag, n the *)
(* number or boolean, s the characters or markup of a string, kids the     *)
(* (key, value) pairs of a dict in insertion order or the items of a       *)
(* list).  A markup string is kept as the node sequence html.parser        *)
(* builds from it: a node is [cls, txt, kids], cls = "#text" for a text    *)
(* node and the class of a <span> otherwise.  The empty string is the      *)
(* empty node sequence.                                                    *)
(***************************************************************************)
EXTENDS Integers, Sequences, FiniteSets, TLC

\* ------------------------------------------------------------------------
\* Bounds of the model
\* ------------------------------------------------------------------------
MaxBooks == 2

\* ------------------------------------------------------------------------
\* Python strings
\* ------------------------------------------------------------------------
RECURSIVE lstrip(_)
lstrip(s) ==
  IF s # <<>> /\ Head(s) = " " THEN lstrip(Tail(s)) ELSE s

RECURSIVE rstrip(_)
rstrip(s) ==
  IF s # <<>> /\ s[Len(s)] = " " THEN rstrip(SubSeq(s, 1, Len(s) - 1)) ELSE s

strip(s) == rstrip(lstrip(s))

\* ------------------------------------------------------------------------
\* Markup: nodes, paths, document order
\* ------------------------------------------------------------------------
Text(s) == [cls |-> "#text", txt |-> s, kids |-> <<>>]
Span(c, ks) == [cls |-> c, txt |-> <<>>, kids |-> ks]

RECURSIVE Walk(_, _, _)
\* the paths of all nodes below `kids`, in document (pre-)order
Walk(kids, prefix, i) ==
  IF i > Len(kids) THEN <<>>
  ELSE <<Append(prefix, i)>>
         \o Walk(kids[i].kids, Append(prefix, i), 1)
         \o Walk(kids, prefix, i + 1)

RECURSIVE NodeAt(_, _)
NodeAt(kids, p) ==
  IF Len(p) = 1 THEN kids[p[1]] ELSE NodeAt(kids[p[1]].kids, Tail(p))

IsPrefix(p, q) == Len(p) <= Len(q) /\ SubSeq(q, 1, Len(p)) = p
Below(p, q) == IsPrefix(p, q) /\ p # q

\* a node is gone once it, or an element around it, was decomposed
Gone(removed, p) == \E r \in removed : IsPrefix(r, p)

\* the paths of the nodes of class c that a.select("span.c") finds below a
SelectBelow(frag, removed, a, c) ==
  LET Test(p) == Below(a, p) /\ ~Gone(removed, p) /\ NodeAt(frag, p).cls = c
  IN  SelectSeq(Walk(frag, <<>>, 1), Test)

\* the text nodes below a, in document order
StringsBelow(frag, removed, a) ==
  LET Test(p) == Below(a, p) /\ ~Gone(removed, p) /\ NodeAt(frag, p).cls = "#text"
      ps == SelectSeq(Walk(frag, <<>>, 1), Test)
  IN  [i \in 1..Len(ps) |-> NodeAt(frag, ps[i]).txt]

RECURSIVE Join(_, _)
Join(sep, pieces) ==
  IF pieces = <<>> THEN <<>>
  ELSE IF Len(pieces) = 1 THEN pieces[1]
  ELSE pieces[1] \o sep \o Join(sep, Tail(pieces))

RECURSIVE Concat(_)
Concat(pieces) == IF pieces = <<>> THEN <<>> ELSE Head(pieces) \o Concat(Tail(pieces))

\* Tag.get_text(separator=" ", strip=True): every string stripped, the empty
\* ones dropped, the rest joined by the separator
get_text(frag, removed, a) ==
  LET raw == StringsBelow(frag, removed, a)
      stripped == [i \in 1..Len(raw) |-> strip(raw[i])]
      NonEmpty(x) == x # <<>>
  IN  Join(<<" ">>, SelectSeq(stripped, NonEmpty))

\* Tag.text: the strings concatenated as they are
text(frag, removed, a) == Concat(StringsBelow(frag, removed, a))

\* Optional[str]
NoneStr == [none |-> TRUE, s |-> <<>>]
Str(s) == [none |-> FALSE, s |-> s]

\* ------------------------------------------------------------------------
\* extract_verses_from_chapter_html
\* ------------------------------------------------------------------------
\* a variant without the test of line 193: every container gives a record
KeepVerse_all(txt) == TRUE

\* `if text:` of line 193
KeepVerse(txt) == txt # <<>>

\* a variant without the loop of lines 181-182: no footnote is decomposed
VerseStep_keepnotes(frag, removed, v) ==
  LET removed2 == removed
      labels == SelectBelow(frag, removed2, v, "label")
      contents == SelectBelow(frag, removed2, v, "content")
      txt == IF contents = <<>> THEN get_text(frag, removed2, v)
             ELSE get_text(frag, removed2, contents[1])
      num == IF labels = <<>> THEN NoneStr
             ELSE Str(strip(text(frag, removed2, labels[1])))
  IN  [removed |-> removed2, keep |-> KeepVerse(txt),
       rec |-> [verse |-> num, text |-> txt]]

\* a variant that takes the text of the content sub-element only: a
\* container without one has no text
VerseStep_contentonly(frag, removed, v) ==
  LET notes == SelectBelow(frag, removed, v, "note")
      removed2 == removed \cup {notes[i] : i \in 1..Len(notes)}
      labels == SelectBelow(frag, removed2, v, "label")
      contents == SelectBelow(frag, removed2, v, "content")
      txt == IF contents = <<>> THEN <<>>
             ELSE get_text(frag, removed2, contents[1])
      num == IF labels = <<>> THEN NoneStr
             ELSE Str(strip(text(frag, removed2, labels[1])))
  IN  [removed |-> removed2, keep |-> KeepVerse(txt),
       rec |-> [verse |-> num, text |-> txt]]

\* one pass of the loop body (lines 180-194) for the verse container at v
VerseStep(frag, removed, v) ==
  LET notes == SelectBelow(frag, removed, v, "note")
      removed2 == removed \cup {notes[i] : i \in 1..Len(notes)}
      labels == SelectBelow(frag, removed2, v, "label")
      contents == SelectBelow(frag, removed2, v, "content")
      txt == IF contents = <<>> THEN get_text(frag, removed2, v)
             ELSE get_text(frag, removed2, contents[1])
      num == IF labels = <<>> THEN NoneStr
             ELSE Str(strip(text(frag, removed2, labels[1])))
  IN  [removed |-> removed2, keep |-> KeepVerse(txt),
       rec |-> [verse |-> num, text |-> txt]]

RECURSIVE VerseLoop(_, _, _, _)
VerseLoop(frag, vs, removed, verses) ==
  IF vs = <<>> THEN verses
  ELSE LET r == VerseStep(frag, removed, Head(vs))
       IN  VerseLoop(frag, Tail(vs), r.removed,
                     IF r.keep THEN Append(verses, r.rec) ELSE verses)

extract_verses_from_chapter_html(html_content) ==
  LET IsVerse(p) == NodeAt(html_content, p).cls = "verse"
  IN  VerseLoop(html_content, SelectSeq(Walk(html_content, <<>>, 1), IsVerse),
                {}, <<>>)

\* ------------------------------------------------------------------------
\* Decoded JSON values
\* ------------------------------------------------------------------------
None == [t |-> "null", n |-> 0, s |-> <<>>, kids |-> <<>>]
JBool(b) == [t |-> "bool", n |-> IF b THEN 1 ELSE 0, s |-> <<>>, kids |-> <<>>]
JNum(k) == [t |-> "num", n |-> k, s |-> <<>>, kids |-> <<>>]
JStr(m) == [t |-> "str", n |-> 0, s |-> m, kids |-> <<>>]
JList(items) ==
  [t |-> "list", n |-> 0, s |-> <<>>,
   kids |-> [i \in 1..Len(items) |-> [k |-> "", v |-> items[i]]]]
JDict(pairs) ==
  [t |-> "dict", n |-> 0, s |-> <<>>,
   kids |-> [i \in 1..Len(pairs) |-> [k |-> pairs[i][1], v |-> pairs[i][2]]]]

\* Python truth value: None, False, 0, "", [] and {} are false
Truthy(d) ==
  CASE d.t = "null" -> FALSE
    [] d.t \in {"bool", "num"} -> d.n # 0
    [] d.t = "str" -> d.s # <<>>
    [] OTHER -> d.kids # <<>>

HasKey(d, key) == \E i \in 1..Len(d.kids) : d.kids[i].k = key

\* dict.get(key, default)
DictGet(d, key, default) ==
  IF HasKey(d, key)
  THEN d.kids[CHOOSE i \in 1..Len(d.kids) : d.kids[i].k = key].v
  ELSE default

\* ------------------------------------------------------------------------
\* scrape_version: locating the chapter's markup (lines 307-335)
\* ------------------------------------------------------------------------
RECURSIVE find_content(_)
RECURSIVE find_content_items(_, _, _)

\* the loops of lines 318-324 (over a dict) and 326-329 (over a list)
find_content_items(kids, i, isdict) ==
  IF i > Len(kids) THEN None
  ELSE IF isdict /\ kids[i].k = "content" /\ kids[i].v.t = "str" THEN kids[i].v
  ELSE LET found == find_content(kids[i].v)
       IN  IF Truthy(found) THEN found
           ELSE find_content_items(kids, i + 1, isdict)

find_content(d) ==
  IF d.t = "dict" THEN find_content_items(d.kids, 1, TRUE)
  ELSE IF d.t = "list" THEN find_content_items(d.kids, 1, FALSE)
  ELSE None

\* data.get("pageProps", {}).get("chapterInfo", {}).get("content"); .get on
\* a value that is not a dict raises AttributeError
FixedPath(data) ==
  IF data.t # "dict" THEN [raised |-> TRUE, v |-> None]
  ELSE LET pp == DictGet(data, "pageProps", JDict(<<>>))
       IN  IF pp.t # "dict" THEN [raised |-> TRUE, v |-> None]
           ELSE LET ci == DictGet(pp, "chapterInfo", JDict(<<>>))
                IN  IF ci.t # "dict" THEN [raised |-> TRUE, v |-> None]
                    ELSE [raised |-> FALSE, v |-> DictGet(ci, "content", None)]

\* the value of html_content at line 337
LocateContent(data) ==
  LET r == FixedPath(data)
  IN  IF r.raised THEN None
      ELSE IF ~Truthy(r.v) THEN find_content(data)
      ELSE r.v

\* ------------------------------------------------------------------------
\* fetch_books_and_chapters
\* ------------------------------------------------------------------------
AsciiDigits == {"0", "1", "2", "3", "4", "5", "6", "7", "8", "9"}
\* str.isdigit also accepts digits that int() rejects, such as a superscript
OtherDigits == {"^2"}

DigitValue(c) ==
  CASE c = "0" -> 0 [] c = "1" -> 1 [] c = "2" -> 2 [] c = "3" -> 3
    [] c = "4" -> 4 [] c = "5" -> 5 [] c = "6" -> 6 [] c = "7" -> 7
    [] c = "8" -> 8 [] c = "9" -> 9

isdigit(s) ==
  s # <<>> /\ \A i \in 1..Len(s) : s[i] \in AsciiDigits \cup OtherDigits

\* int(s) raises ValueError unless every character is a decimal digit
IntParses(s) == s # <<>> /\ \A i \in 1..Len(s) : s[i] \in AsciiDigits

RECURSIVE int(_)
int(s) == IF s = <<>> THEN 0 ELSE 10 * int(SubSeq(s, 1, Len(s) - 1)) + DigitValue(s[Len(s)])

\* a chapter entry of the metadata: `human` is the label, `canonical` is
\* "true", "false" or "absent" (the key is missing)
Ch(label, canonical) == [human |-> label, canonical |-> canonical]

\* ch.get("canonical", True)
IsCanonical(ch) == ch.canonical # "false"

\* line 238
KeepChapter(ch) == IsCanonical(ch) /\ isdigit(strip(ch.human))

\* lines 234-239 for one book: the labels that are kept, in source order
KeptLabels(entries) ==
  LET kept == SelectSeq([i \in 1..Len(entries) |-> entries[i]], KeepChapter)
  IN  [i \in 1..Len(kept) |-> strip(kept[i].human)]

\* a response of the metadata endpoint: status and, for each book, its code
\* and chapter entries
\* lines 223-249; raised is "" or the name of the exception
fetch_books_and_chapters(resp) ==
  IF resp.status # 200 THEN [raised |-> "RuntimeError", result |-> <<>>]
  ELSE LET labelsOf(i) == KeptLabels(resp.books[i].chapters)
           bad == \E i \in 1..Len(resp.books) :
                    \E j \in 1..Len(labelsOf(i)) : ~IntParses(labelsOf(i)[j])
       IN  IF bad THEN [raised |-> "ValueError", result |-> <<>>]
           ELSE [raised |-> "",
                 result |-> [i \in 1..Len(resp.books) |->
                   [book_code |-> resp.books[i].usfm,
                    chapters |-> [j \in 1..Len(labelsOf(i)) |-> int(labelsOf(i)[j])]]]]

\* ------------------------------------------------------------------------
\* construct_json_url: the target is determined by the composite
\* "book.chapter.versionCode" (the other parts are fixed for a run)
\* ------------------------------------------------------------------------
construct_json_url(book, chapter) == [book |-> book, chapter |-> chapter]

\* ------------------------------------------------------------------------
\* Inputs: what the remote source may answer
\* ------------------------------------------------------------------------
\* markup of a chapter
F_one ==
  <<Span("verse", <<Span("label", <<Text(<<"1">>)>>),
                    Span("content", <<Text(<<"a">>)>>)>>)>>
F_two ==
  <<Span("verse", <<Span("label", <<Text(<<"1">>)>>),
                    Span("content", <<Text(<<" ", "a">>),
                                      Span("note", <<Text(<<"f">>)>>),
                                      Text(<<"b", " ">>)>>)>>),
    Span("verse", <<Span("label", <<Text(<<"2">>)>>),
                    Span("content", <<Text(<<" ">>)>>)>>),
    Span("verse", <<Text(<<"c">>)>>)>>
F_blank ==
  <<Span("verse", <<Span("label", <<Text(<<"1">>)>>),
                    Span("content", <<Text(<<" ">>)>>)>>)>>
F_empty == <<>>

Fragments == {F_two, F_blank}

WithContent(v) ==
  JDict(<< <<"pageProps", JDict(<< <<"chapterInfo", JDict(<< <<"content", v>> >>)>> >>)>> >>)

\* decoded bodies of the chapter endpoint
FalsyDocs == {None, JBool(FALSE), JNum(0), JStr(<<>>), JList(<<>>), JDict(<<>>)}
NoContentDocs ==
  { JDict(<< <<"pageProps", JDict(<< <<"chapterInfo", JDict(<<>>)>> >>)>> >>),
    JDict(<< <<"notFound", JBool(TRUE)>> >>),
    WithContent(JStr(F_empty)),
    JList(<< JDict(<< <<"content", JStr(F_one)>> >>) >>),
    JDict(<< <<"pageProps", None>>, <<"content", JStr(F_one)>> >>) }
ContentDocs ==
  { WithContent(JStr(f)) : f \in Fragments }
    \cup { JDict(<< <<"props", JDict(<< <<"content", JStr(F_one)>> >>)>> >>),
           JDict(<< <<"pageProps", JDict(<<>>)>>,
                    <<"data", JList(<< JNum(1), JDict(<< <<"content", JStr(F_two)>> >>) >>)>> >>) }
OddDocs == { WithContent(JNum(5)) }

ChapterDocs == FalsyDocs \cup NoContentDocs \cup ContentDocs \cup OddDocs

\* one HTTP exchange of the fetcher: a transport error, or a body that
\* decodes as JSON (to val) or does not
NetError == [kind |-> "neterr", val |-> None]
Garbage == [kind |-> "garbage", val |-> None]
Json(v) == [kind |-> "json", val |-> v]
Responses == {NetError, Garbage} \cup { Json(v) : v \in ChapterDocs }

\* answers of the metadata endpoint
Book(code, chapters) == [usfm |-> code, chapters |-> chapters]
Meta(bs) == [status |-> 200, books |-> bs]
R_plain ==
  Meta(<< Book("GEN", << Ch(<<"1">>, "true"), Ch(<<"2">>, "true"), Ch(<<"3">>, "true") >>),
          Book("EXO", << Ch(<<"i">>, "true"), Ch(<<"1">>, "false"),
                         Ch(<<" ", "1", " ">>, "true"), Ch(<<"2">>, "absent") >>) >>)
R_odd ==
  Meta(<< Book("GEN", << Ch(<<"2">>, "true"), Ch(<<"1">>, "true") >>),
          Book("EXO", << Ch(<<"0">>, "true"), Ch(<<"0">>, "true") >>) >>)
R_short == Meta(<< Book("GEN", <<>>) >>)
R_super == Meta(<< Book("GEN", << Ch(<<"^2">>, "true") >>) >>)
R_down == [status |-> 500, books |-> <<>>]
CatalogResponses == {R_plain, R_odd, R_short, R_super, R_down}

BookCodes == {"GEN", "EXO"}

RECURSIVE SeqsUpTo(_, _)
SeqsUpTo(S, n) ==
  IF n = 0 THEN {<<>>}
  ELSE LET shorter == SeqsUpTo(S, n - 1)
       IN  shorter \cup {Append(q, x) : q \in shorter, x \in S}

\* the books argument: None, or a list of book codes
BooksArgs ==
  {[none |-> TRUE, list |-> <<>>]}
    \cup {[none |-> FALSE, list |-> l] : l \in SeqsUpTo(BookCodes, MaxBooks)}

\* ------------------------------------------------------------------------
\* State of a run of scrape_version
\* ------------------------------------------------------------------------
\* defaults of fetch_json_with_retries (scrape_version passes neither)
retries == 3
backoff == 5

VARIABLES
  pc,                   \* position: "start", "book", "fetch", "got", "write",
                        \*           "done", "crashed"; "call" and "returned"
                        \*           for a call of the extractor on its own
  books,                \* the books argument
  bi,                   \* index in books of the book being processed
  valid_chapters,       \* the chapter list of the book (line 290)
  ci,                   \* index in valid_chapters of the loop of line 294
  chapter,              \* the loop variable of line 294
  attempt,              \* the loop variable of line 128
  data,                 \* what fetch_json_with_retries returned (line 298)
  book_out,             \* ChapterResults of the book (line 283)
  raw_html_accumulator, \* raw markup of the book (line 284)
  written,              \* the artifacts written so far, one entry per book
  error,                \* the exception that ended the run, "" if none
  \* observations of the run, not program state:
  tries,                \* the HTTP exchanges of the current fetch call
  waits,                \* the sleeps of the current fetch call
  exitAt,               \* the return statement the last fetch call ended at
  log,                  \* the outcome of each chapter of the book so far
  since,                \* what happened last: "none", "fetched" or "slept"
  \* a call of extract_verses_from_chapter_html on its own:
  markup,               \* its argument
  extracted             \* the list it returned

vars == <<pc, books, bi, valid_chapters, ci, chapter, attempt, data, book_out,
          raw_html_accumulator, written, error, tries, waits, exitAt, log, since,
          markup, extracted>>

runVars == <<books, written>>
bookVars == <<valid_chapters, book_out, raw_html_accumulator, log>>
fetchVars == <<attempt, data, tries, waits, exitAt>>
callVars == <<markup, extracted>>

Init ==
  /\ pc = "start"
  /\ books \in BooksArgs
  /\ bi = 1
  /\ valid_chapters = <<>>
  /\ ci = 1
  /\ chapter = 0
  /\ attempt = 0
  /\ data = None
  /\ book_out = <<>>
  /\ raw_html_accumulator = <<>>
  /\ written = <<>>
  /\ error = ""
  /\ tries = <<>>
  /\ waits = <<>>
  /\ exitAt = ""
  /\ log = <<>>
  /\ since = "none"
  /\ markup = <<>>
  /\ extracted = <<>>

\* an uncaught exception ends the run
Raise(e) ==
  /\ pc' = "crashed"
  /\ error' = e

\* lines 271-279: the default book list, and the listing of the catalog
Start ==
  /\ pc = "start"
  /\ \E r1, r2 \in CatalogResponses :
       LET c1 == fetch_books_and_chapters(r1)
           c2 == fetch_books_and_chapters(r2)
           list == IF books.none
                   THEN [i \in 1..Len(c1.result) |-> c1.result[i].book_code]
                   ELSE books.list
       IN  IF books.none /\ c1.raised # ""
           THEN Raise(c1.raised) /\ UNCHANGED books
           ELSE IF c2.raised # ""
           THEN Raise(c2.raised) /\ books' = [none |-> FALSE, list |-> list]
           ELSE /\ books' = [none |-> FALSE, list |-> list]
                /\ pc' = IF list = <<>> THEN "done" ELSE "book"
                /\ error' = error
  /\ UNCHANGED <<bi, ci, chapter, written, since>>
  /\ UNCHANGED bookVars
  /\ UNCHANGED fetchVars
  /\ UNCHANGED callVars

\* lines 282-292: a new book begins; its chapter list is looked up in a
\* fresh answer of the metadata endpoint
ResolveBook ==
  /\ pc = "book"
  /\ \E r \in CatalogResponses :
       LET c == fetch_books_and_chapters(r)
           book == books.list[bi]
           hits == {i \in 1..Len(c.result) : c.result[i].book_code = book}
       IN  IF c.raised # ""
           THEN Raise(c.raised) /\ UNCHANGED <<valid_chapters, ci, chapter>>
           ELSE IF hits = {}
           THEN Raise("StopIteration") /\ UNCHANGED <<valid_chapters, ci, chapter>>
           ELSE LET chs == c.result[CHOOSE i \in hits : \A j \in hits : i <= j].chapters
                IN  /\ valid_chapters' = chs
                    /\ ci' = 1
                    /\ chapter' = IF chs = <<>> THEN chapter ELSE chs[1]
                    /\ pc' = IF chs = <<>> THEN "write" ELSE "fetch"
                    /\ error' = error
  /\ book_out' = <<>>
  /\ raw_html_accumulator' = <<>>
  /\ log' = <<>>
  /\ UNCHANGED <<books, bi, written, since>>
  /\ UNCHANGED fetchVars
  /\ UNCHANGED callVars

\* ------------------------------------------------------------------------
\* fetch_json_with_retries, one pass of the loop of line 128 per step
\* ------------------------------------------------------------------------
\* a variant that loops once too often
MoreAttempts_offbyone(a) == a + 1 <= retries

\* `for attempt in range(retries)`: is there another pass after this one
MoreAttempts(a) == a + 1 < retries

\* a variant that waits the same time after every body that does not decode
GarbageWait_flat(a) == backoff

\* line 159 and line 168
GarbageWait(a) == backoff * (a + 1)
NetWait(a) == backoff

\* a variant that returns only a decoded value that is true (`if data:`)
ReturnsAtOnce_truthy(r) == r.kind = "json" /\ Truthy(r.val)

\* line 164: a body that decodes is returned at once
ReturnsAtOnce(r) == r.kind = "json"

Request ==
  /\ pc = "fetch"
  /\ \E r \in Responses :
       /\ tries' = Append(tries, r)
       /\ IF ReturnsAtOnce(r)
          THEN /\ data' = r.val
               /\ exitAt' = "return"
               /\ pc' = "got"
               /\ UNCHANGED <<attempt, waits>>
          ELSE /\ waits' = Append(waits, IF r.kind = "garbage"
                                         THEN GarbageWait(attempt)
                                         ELSE NetWait(attempt))
               /\ IF MoreAttempts(attempt)
                  THEN /\ attempt' = attempt + 1
                       /\ UNCHANGED <<pc, data, exitAt>>
                  ELSE /\ data' = None
                       /\ exitAt' = "giveup"
                       /\ pc' = "got"
                       /\ UNCHANGED attempt
  /\ since' = "fetched"
  /\ UNCHANGED <<bi, ci, chapter, error>>
  /\ UNCHANGED runVars
  /\ UNCHANGED bookVars
  /\ UNCHANGED callVars

\* ------------------------------------------------------------------------
\* scrape_version: the body of the chapter loop after the fetch
\* ------------------------------------------------------------------------
Outcome(kind, html) ==
  [chapter |-> chapter, kind |-> kind, exit |-> exitAt, html |-> html]

\* the result of the fetch call has been used: attempt, data and the
\* observations of the call are dead until the next call sets them
FetchReturned ==
  /\ attempt' = 0
  /\ data' = None
  /\ tries' = <<>>
  /\ waits' = <<>>
  /\ exitAt' = ""

\* the next pass of `for chapter in valid_chapters`; bump is 1 when the pass
\* that ends executed `chapter += 1`
NextChapter(bump) ==
  /\ ci' = ci + 1
  /\ IF ci < Len(valid_chapters)
     THEN pc' = "fetch" /\ chapter' = valid_chapters[ci + 1]
     ELSE pc' = "write" /\ chapter' = chapter + bump
  /\ FetchReturned

\* time.sleep(sleep_between)
Sleep == since' = "slept"

\* line 299
FetchFailed(d) == ~Truthy(d)

\* line 337
ContentMissing(html) == ~Truthy(html)

\* a variant that leaves the chapter loop (`break` for `continue`)
SkipFailed_break ==
  /\ pc = "got"
  /\ FetchFailed(data)
  /\ log' = Append(log, Outcome("failed", None))
  /\ Sleep
  /\ pc' = "write"
  /\ FetchReturned
  /\ UNCHANGED <<bi, ci, chapter, error, valid_chapters, book_out,
                 raw_html_accumulator>>
  /\ UNCHANGED runVars
  /\ UNCHANGED callVars

\* lines 299-302
SkipFailed ==
  /\ pc = "got"
  /\ FetchFailed(data)
  /\ log' = Append(log, Outcome("failed", None))
  /\ Sleep
  /\ NextChapter(0)
  /\ UNCHANGED <<bi, error, valid_chapters, book_out, raw_html_accumulator>>
  /\ UNCHANGED runVars
  /\ UNCHANGED callVars

\* a variant that goes on with the next chapter (`continue` for `break`)
StopBook_continue ==
  /\ pc = "got"
  /\ ~FetchFailed(data)
  /\ ContentMissing(LocateContent(data))
  /\ log' = Append(log, Outcome("absent", None))
  /\ NextChapter(0)
  /\ UNCHANGED <<bi, error, since, valid_chapters, book_out,
                 raw_html_accumulator>>
  /\ UNCHANGED runVars
  /\ UNCHANGED callVars

\* lines 337-340
StopBook ==
  /\ pc = "got"
  /\ ~FetchFailed(data)
  /\ ContentMissing(LocateContent(data))
  /\ log' = Append(log, Outcome("absent", None))
  /\ pc' = "write"
  /\ FetchReturned
  /\ UNCHANGED <<bi, ci, chapter, error, since, valid_chapters, book_out,
                 raw_html_accumulator>>
  /\ UNCHANGED runVars
  /\ UNCHANGED callVars

\* lines 344-347 when the located value is not a string: it is archived and
\* BeautifulSoup raises on it
ExtractCrash ==
  /\ pc = "got"
  /\ ~FetchFailed(data)
  /\ LET html == LocateContent(data)
     IN  /\ ~ContentMissing(html)
         /\ html.t # "str"
         /\ raw_html_accumulator' = Append(raw_html_accumulator, html)
         /\ log' = Append(log, Outcome("crash", html))
  /\ Raise("TypeError")
  /\ UNCHANGED <<bi, ci, chapter, since, valid_chapters, book_out>>
  /\ UNCHANGED runVars
  /\ UNCHANGED fetchVars
  /\ UNCHANGED callVars

\* a variant that leaves the chapter loop when no verse was found
SkipEmpty_break ==
  /\ pc = "got"
  /\ ~FetchFailed(data)
  /\ LET html == LocateContent(data)
     IN  /\ ~ContentMissing(html)
         /\ html.t = "str"
         /\ extract_verses_from_chapter_html(html.s) = <<>>
         /\ raw_html_accumulator' = Append(raw_html_accumulator, html)
         /\ log' = Append(log, Outcome("empty", html))
  /\ Sleep
  /\ pc' = "write"
  /\ FetchReturned
  /\ UNCHANGED <<bi, ci, chapter, error, valid_chapters, book_out>>
  /\ UNCHANGED runVars
  /\ UNCHANGED callVars

\* a variant that archives the markup only after verses were found
SkipEmpty_noraw ==
  /\ pc = "got"
  /\ ~FetchFailed(data)
  /\ LET html == LocateContent(data)
     IN  /\ ~ContentMissing(html)
         /\ html.t = "str"
         /\ extract_verses_from_chapter_html(html.s) = <<>>
         /\ log' = Append(log, Outcome("empty", html))
  /\ Sleep
  /\ NextChapter(1)
  /\ UNCHANGED <<bi, error, valid_chapters, book_out, raw_html_accumulator>>
  /\ UNCHANGED runVars
  /\ UNCHANGED callVars

\* lines 344-352
SkipEmpty ==
  /\ pc = "got"
  /\ ~FetchFailed(data)
  /\ LET html == LocateContent(data)
     IN  /\ ~ContentMissing(html)
         /\ html.t = "str"
         /\ extract_verses_from_chapter_html(html.s) = <<>>
         /\ raw_html_accumulator' = Append(raw_html_accumulator, html)
         /\ log' = Append(log, Outcome("empty", html))
  /\ Sleep
  /\ NextChapter(1)
  /\ UNCHANGED <<bi, error, valid_chapters, book_out>>
  /\ UNCHANGED runVars
  /\ UNCHANGED callVars

\* lines 344-366
StoreChapter ==
  /\ pc = "got"
  /\ ~FetchFailed(data)
  /\ LET html == LocateContent(data)
     IN  /\ ~ContentMissing(html)
         /\ html.t = "str"
         /\ LET verses == extract_verses_from_chapter_html(html.s)
            IN  /\ verses # <<>>
                /\ book_out' = Append(book_out,
                      [book |-> books.list[bi], chapter |-> chapter,
                       verses |-> verses,
                       raw_json_url |-> construct_json_url(books.list[bi], chapter)])
         /\ raw_html_accumulator' = Append(raw_html_accumulator, html)
         /\ log' = Append(log, Outcome("stored", html))
  /\ Sleep
  /\ NextChapter(1)
  /\ UNCHANGED <<bi, error, valid_chapters>>
  /\ UNCHANGED runVars
  /\ UNCHANGED callVars

\* lines 368-395: the artifacts of the book, then the next book
\* the files of a book: the content of a file is not modelled, only that it
\* was written
Artifacts(book, out, raw) ==
  [book |-> book, files |-> {"json", "csv", "raw"}]

\* the files that exist when writing the file `failing` raised: the files are
\* written in the order json (line 371), csv (line 387), raw (line 391)
FilesBefore(failing) ==
  CASE failing = "json" -> {}
    [] failing = "csv" -> {"json"}
    [] failing = "raw" -> {"json", "csv"}

\* the outcomes of the writes of one book: all succeed, or one of them raises
WriteOutcomes == {"ok", "json", "csv", "raw"}

\* a variant that writes when anything was gathered, markup included
HasData_anything(out, raw) == out # <<>> \/ raw # <<>>

\* `if book_out:` of line 369
HasData(out, raw) == out # <<>>

WriteBook ==
  /\ pc = "write"
  /\ \E io \in WriteOutcomes :
       IF HasData(book_out, raw_html_accumulator) /\ io # "ok"
       THEN /\ Raise("OSError")
            /\ written' = IF FilesBefore(io) = {} THEN written
                          ELSE Append(written, [book |-> books.list[bi],
                                                files |-> FilesBefore(io)])
            /\ UNCHANGED bi
       ELSE /\ written' = IF HasData(book_out, raw_html_accumulator)
                          THEN Append(written, Artifacts(books.list[bi], book_out,
                                                         raw_html_accumulator))
                          ELSE written
            /\ bi' = bi + 1
            /\ pc' = IF bi < Len(books.list) THEN "book" ELSE "done"
            /\ error' = error
  /\ UNCHANGED <<books, ci, chapter, since>>
  /\ UNCHANGED bookVars
  /\ UNCHANGED fetchVars
  /\ UNCHANGED callVars

\* the run is interrupted (KeyboardInterrupt) at one of its suspension
\* points: in requests.get or the back-off sleep of a fetch call (pc is
\* "fetch"), or in the time.sleep(sleep_between) that ended the pass of the
\* last chapter of a book.  Nothing catches it.
InLastDelay ==
  /\ pc = "write"
  /\ log # <<>>
  /\ log[Len(log)].kind \in {"failed", "empty", "stored"}

Cancel ==
  /\ pc = "fetch" \/ InLastDelay
  /\ Raise("KeyboardInterrupt")
  /\ UNCHANGED <<bi, ci, chapter, since>>
  /\ UNCHANGED runVars
  /\ UNCHANGED bookVars
  /\ UNCHANGED fetchVars
  /\ UNCHANGED callVars

Next ==
  \/ Start
  \/ ResolveBook
  \/ Request
  \/ SkipFailed
  \/ StopBook
  \/ ExtractCrash
  \/ SkipEmpty
  \/ StoreChapter
  \/ WriteBook
  \/ Cancel

Spec == Init /\ [][Next]_vars

\* ------------------------------------------------------------------------
\* A call of extract_verses_from_chapter_html on its own
\* ------------------------------------------------------------------------
MaxNodes == 2

V_full == Span("verse", <<Span("label", <<Text(<<"1">>)>>),
                          Span("content", <<Text(<<"a">>)>>)>>)
V_nolabel == Span("verse", <<Span("content", <<Text(<<"b", " ">>)>>)>>)
V_nocontent == Span("verse", <<Span("label", <<Text(<<" ", "2">>)>>),
                               Text(<<"c">>)>>)
V_blank == Span("verse", <<Span("label", <<Text(<<"3">>)>>),
                           Span("content", <<Text(<<" ">>)>>)>>)
V_bare == Span("verse", <<>>)
V_note == Span("verse", <<Span("label", <<Text(<<"4">>),
                                          Span("note", <<Text(<<"n">>)>>)>>),
                          Span("content", <<Text(<<"d">>),
                                            Span("note", <<Text(<<"f">>)>>),
                                            Text(<<" ", "e">>)>>)>>)
V_nested == Span("verse", <<Span("label", <<Text(<<"5">>)>>),
                            Span("verse", <<Span("content", <<Text(<<"g">>)>>)>>)>>)
V_innote == Span("verse", <<Span("note", <<Span("verse", <<Text(<<"h">>)>>)>>),
                            Span("content", <<Text(<<"i">>)>>)>>)
V_deep == Span("verse", <<Span("label", <<Text(<<"6">>)>>),
                          Span("verse", <<Span("content",
                                               <<Text(<<"m">>),
                                                 Span("note", <<Text(<<"p">>)>>)>>)>>)>>)
N_verse == Span("note", <<Span("verse", <<Text(<<"j">>)>>)>>)
T_plain == Text(<<"k">>)

TestNodes == {V_full, V_nolabel, V_nocontent, V_blank, V_bare, V_note,
              V_nested, V_innote, V_deep, N_verse, T_plain}

\* the argument is any sequence of at most MaxNodes of these nodes
ExtractInit ==
  /\ pc = "call"
  /\ markup \in SeqsUpTo(TestNodes, MaxNodes)
  /\ extracted = <<>>
  /\ books = [none |-> TRUE, list |-> <<>>]
  /\ bi = 1
  /\ valid_chapters = <<>>
  /\ ci = 1
  /\ chapter = 0
  /\ attempt = 0
  /\ data = None
  /\ book_out = <<>>
  /\ raw_html_accumulator = <<>>
  /\ written = <<>>
  /\ error = ""
  /\ tries = <<>>
  /\ waits = <<>>
  /\ exitAt = ""
  /\ log = <<>>
  /\ since = "none"

ExtractCall ==
  /\ pc = "call"
  /\ extracted' = extract_verses_from_chapter_html(markup)
  /\ pc' = "returned"
  /\ UNCHANGED <<markup, bi, ci, chapter, error, since>>
  /\ UNCHANGED runVars
  /\ UNCHANGED bookVars
  /\ UNCHANGED fetchVars

ExtractNext == ExtractCall

ExtractSpec == ExtractInit /\ [][ExtractNext]_vars

\* ------------------------------------------------------------------------
\* Properties
\* ------------------------------------------------------------------------
Last(q) == q[Len(q)]

\* the entries of the log of a kind in `kinds`
OfKind(kinds) == LET Test(e) == e.kind \in kinds IN SelectSeq(log, Test)

\* the loop of line 294 goes on with the chapter after the current one, or
\* ends with the book when the current one is the last of the list
GoesOn ==
  /\ bi' = bi
  /\ valid_chapters' = valid_chapters
  /\ ci' = ci + 1
  /\ IF ci < Len(valid_chapters)
     THEN pc' = "fetch" /\ chapter' = valid_chapters[ci + 1]
     ELSE pc' = "write"

C2_FailedFetchSkips ==
  [][(pc = "got" /\ exitAt = "giveup") =>
       (/\ book_out' = book_out
        /\ raw_html_accumulator' = raw_html_accumulator
        /\ GoesOn)]_vars

\* the fetcher gave up on chapter 2 of 3 and chapter 3 is about to be fetched
C2_Witness ==
  /\ Len(log) = 2
  /\ log[1].kind = "stored"
  /\ log[2].exit = "giveup" /\ log[2].kind = "failed"
  /\ pc = "fetch" /\ ci = 3 /\ chapter = 3
  /\ Len(book_out) = 1 /\ Len(raw_html_accumulator) = 1

\* C3: a chapter whose markup is present but yields no verse does not stop
\* the book: nothing is stored for it and the loop goes on with the next
\* chapter of the list.
C3_EmptyExtractionGoesOn ==
  [][(/\ pc = "got"
      /\ Truthy(data)
      /\ LocateContent(data).t = "str"
      /\ LocateContent(data).s # <<>>
      /\ extract_verses_from_chapter_html(LocateContent(data).s) = <<>>) =>
       (/\ book_out' = book_out
        /\ GoesOn)]_vars

\* chapter 1 gave markup without verses, chapter 2 was fetched and stored
C3_Witness ==
  /\ Len(log) >= 2
  /\ log[1].kind = "empty" /\ log[1].exit = "return"
  /\ log[2].kind = "stored"
  /\ Len(book_out) = 1 /\ book_out[1].chapter = log[2].chapter

\* C4: the raw list holds, in fetch order, exactly the markup of the chapters
\* processed so far whose document gave markup (html_content true at line
\* 337), whether or not verses were then found; a failed fetch and an absent
\* fragment give no entry.
C4_RawArchive ==
  LET gave == OfKind({"empty", "stored", "crash"})
  IN  /\ raw_html_accumulator = [i \in 1..Len(gave) |-> gave[i].html]
      /\ \A i \in 1..Len(log) :
           log[i].kind \in {"failed", "absent"} <=> log[i].html = None

\* the raw list holds the markup of a chapter without verses between those
\* of two chapters, one of them skipped for a failed fetch
C4_Witness ==
  /\ Len(log) = 3
  /\ log[1].kind = "failed" /\ log[2].kind = "empty" /\ log[3].kind = "stored"
  /\ Len(raw_html_accumulator) = 2
  /\ raw_html_accumulator[1] = JStr(F_blank)
  /\ raw_html_accumulator[2] # JStr(F_blank)
  /\ Len(book_out) = 1

\* C5: one call of fetch_json_with_retries issues at most `retries` requests,
\* whatever the mix of transport errors, undecodable bodies and JSON bodies.
C5_AtMostRetriesRequests == Len(tries) <= retries

\* a call that used all its requests: a transport error, an undecodable body,
\* then a JSON body
C5_Witness ==
  /\ pc = "got"
  /\ Len(tries) = retries
  /\ tries[1].kind = "neterr" /\ tries[2].kind = "garbage" /\ tries[3].kind = "json"

\* C6: a call of fetch_json_with_retries ends at `return data` with the
\* decoded body of the first request whose body decodes, which is the last
\* request of the call, and ends at the final `return None` exactly when
\* `retries` requests were issued and none gave a body that decodes.
C6_FirstJsonOrGiveUp ==
  pc = "got" =>
    /\ exitAt \in {"return", "giveup"}
    /\ exitAt = "giveup" <=>
         (Len(tries) = retries /\ \A i \in 1..Len(tries) : tries[i].kind # "json")
    /\ exitAt = "return" =>
         /\ tries # <<>>
         /\ Last(tries).kind = "json"
         /\ \A i \in 1..(Len(tries) - 1) : tries[i].kind # "json"
         /\ data = Last(tries).val
    /\ exitAt = "giveup" => data = None

\* the second request gave the first body that decodes, a false value, and it
\* was returned without a third request
C6_Witness ==
  /\ pc = "got"
  /\ exitAt = "return"
  /\ Len(tries) = 2
  /\ tries[1].kind = "garbage"
  /\ data = JDict(<<>>)

RECURSIVE HasStringContent(_)
\* some key `content` with a string value occurs somewhere in the document
HasStringContent(d) ==
  \E i \in 1..Len(d.kids) :
    \/ d.t = "dict" /\ d.kids[i].k = "content" /\ d.kids[i].v.t = "str"
    \/ HasStringContent(d.kids[i].v)

\* C7: when the fetcher returned a decoded body, whatever its value, the
\* chapter is not skipped as a failed fetch: a document without any string
\* `content` field is classified ContentAbsent and ends the book.
C7_DecodedNeverSkipped ==
  [][(pc = "got" /\ exitAt = "return" /\ ~HasStringContent(data)) =>
       (/\ pc' = "write"
        /\ log' # <<>>
        /\ Last(log').kind = "absent")]_vars

\* C8: when a fetch call is about to be made after an earlier one, the
\* inter-request delay was observed in between.
C8_DelayBetweenFetches ==
  (pc = "fetch" /\ tries = <<>>) => since # "fetched"

\* C9: the chapter list of a book holds only strictly increasing positive
\* integers.
C9_IncreasingPositive ==
  \A i \in 1..Len(valid_chapters) :
    /\ valid_chapters[i] > 0
    /\ i > 1 => valid_chapters[i - 1] < valid_chapters[i]

\* C10: every ChapterResult of the book has at least one verse, and every
\* verse of it has a text that is not empty.
C10_NoEmptyResult ==
  \A i \in 1..Len(book_out) :
    /\ book_out[i].verses # <<>>
    /\ \A j \in 1..Len(book_out[i].verses) : book_out[i].verses[j].text # <<>>

\* a chapter without verses was skipped, and a chapter was stored whose
\* markup has three verse containers, one of them with a blank text
C10_Witness ==
  /\ \E i \in 1..Len(log) : log[i].kind = "empty"
  /\ \E i \in 1..Len(log) : log[i].kind = "stored" /\ log[i].html = JStr(F_two)
  /\ \E j \in 1..Len(book_out) : Len(book_out[j].verses) = 2

\* a step of the write stage of a book (lines 368-395), as opposed to an
\* interrupt that arrives there
WriteStep == pc = "write" /\ error' # "KeyboardInterrupt"

AllFiles == {"json", "csv", "raw"}

\* C11: at the end of a book the three artifacts are written exactly when
\* the book has at least one ChapterResult; with none, nothing is written,
\* whatever markup was gathered, and the run goes on without an error.
C11_WrittenIffData ==
  [][WriteStep =>
       /\ book_out = <<>> =>
            /\ written' = written
            /\ error' = ""
            /\ pc' \in {"book", "done"}
       /\ (book_out # <<>> /\ pc' # "crashed") =>
            written' = Append(written, [book |-> books.list[bi], files |-> AllFiles])
       /\ written' # written => book_out # <<>>]_vars

\* the first book gathered markup of a chapter without verses and no
\* ChapterResult; its write stage is over and nothing was written
C11_Witness ==
  /\ pc \in {"book", "done"}
  /\ bi = 2
  /\ book_out = <<>>
  /\ raw_html_accumulator # <<>>
  /\ \E i \in 1..Len(log) : log[i].kind = "empty"
  /\ written = <<>>

\* C12: a failure to write one book's artifacts does not end the run.
C12_WriteFailureContained == ~(pc = "crashed" /\ error = "OSError")

\* C13: when the run is interrupted while a book is being accumulated, the
\* ChapterResults and the markup gathered so far for that book are written
\* before the run ends.
C13_CancelFlushes ==
  [][(error = "" /\ error' = "KeyboardInterrupt" /\ book_out # <<>>) =>
       written' = Append(written, Artifacts(books.list[bi], book_out,
                                            raw_html_accumulator))]_vars

\* C14: no request is issued for a target whose book code is empty or whose
\* chapter number is not positive.
C14_NoRequestForInvalidTarget ==
  tries # <<>> =>
    LET target == construct_json_url(books.list[bi], chapter)
    IN  target.book # "" /\ target.chapter > 0

\* C15: whatever a fetch call returned, the step that handles it continues
\* the chapter loop or reaches the write stage of the book, so that every
\* book started reaches its write stage with what it accumulated.
C15_OutcomeNeverEndsRun ==
  [][pc = "got" => pc' \in {"fetch", "write"}]_vars

\* the value at pageProps.chapterInfo.content, None when a step of the path
\* is missing or is not a mapping
AtFixedPath(d) ==
  IF d.t = "dict" /\ HasKey(d, "pageProps")
  THEN LET pp == DictGet(d, "pageProps", None)
       IN  IF pp.t = "dict" /\ HasKey(pp, "chapterInfo")
           THEN LET info == DictGet(pp, "chapterInfo", None)
                IN  IF info.t = "dict" THEN DictGet(info, "content", None) ELSE None
           ELSE None
  ELSE None

RECURSIVE FirstStringContent(_)
RECURSIVE FirstStringContentFrom(_, _)

\* the first key `content` with a string value, depth first, from child i
FirstStringContentFrom(d, i) ==
  IF i > Len(d.kids) THEN None
  ELSE IF d.t = "dict" /\ d.kids[i].k = "content" /\ d.kids[i].v.t = "str"
       THEN d.kids[i].v
  ELSE LET found == FirstStringContent(d.kids[i].v)
       IN  IF found # None THEN found ELSE FirstStringContentFrom(d, i + 1)

FirstStringContent(d) ==
  IF d.t \in {"dict", "list"} THEN FirstStringContentFrom(d, 1) ELSE None

\* C16: the markup located in a decoded document is the string at the fixed
\* path pageProps.chapterInfo.content when there is one, and otherwise the
\* first `content` key with a string value in depth-first order, or None.
C16_StringOrNone ==
  (pc = "got" /\ ~FetchFailed(data)) =>
    LocateContent(data) = (IF AtFixedPath(data).t = "str" THEN AtFixedPath(data)
                           ELSE FirstStringContent(data))

\* C17: within a fetch call every attempt that did not decode was followed
\* by a wait, of backoff * n after the n-th attempt when the body was not
\* JSON and of backoff when the transport failed, and the call goes on with
\* another attempt as long as fewer than `retries` were made.
C17_Waits ==
  /\ Len(waits) = Cardinality({i \in 1..Len(tries) : tries[i].kind # "json"})
  /\ \A i \in 1..Len(waits) :
       waits[i] = IF tries[i].kind = "garbage" THEN backoff * i ELSE backoff
  /\ (tries # <<>> /\ Last(tries).kind # "json" /\ Len(tries) < retries) =>
       exitAt = ""
  /\ exitAt = "giveup" => Len(tries) = retries

\* a call whose three attempts ended in a body that is not JSON, a transport
\* error and a body that is not JSON again
C17_Witness ==
  /\ pc = "got"
  /\ Len(tries) = 3
  /\ tries[1].kind = "garbage" /\ tries[2].kind = "neterr"
  /\ tries[3].kind = "garbage"
  /\ waits = <<backoff, backoff, 3 * backoff>>

\* C18: the chapters of a book are requested in the order of the catalog's
\* chapter list, one fetch call per chapter; the ChapterResults of the book
\* are in strictly ascending chapter order and each carries the number of
\* the chapter that was requested for it.
C18_OrderedResults ==
  /\ \A i \in 1..Len(log) : log[i].chapter = valid_chapters[i]
  /\ Len(OfKind({"stored"})) = Len(book_out)
  /\ \A i \in 1..Len(book_out) :
       /\ book_out[i].chapter = OfKind({"stored"})[i].chapter
       /\ i > 1 => book_out[i - 1].chapter < book_out[i].chapter

\* C19: once the catalog has been resolved at the start of the run, no later
\* step fails on the catalog endpoint.
C19_CatalogResolvedOnce ==
  [][pc = "book" => error' \notin {"RuntimeError", "ValueError"}]_vars

\* the verse containers of a fragment, in document order
VerseContainers(frag) ==
  LET IsVerse(p) == NodeAt(frag, p).cls = "verse"
  IN  SelectSeq(Walk(frag, <<>>, 1), IsVerse)

\* the footnotes of a fragment that lie inside a verse container
NotesInVerses(frag) ==
  LET ps == Walk(frag, <<>>, 1)
  IN  {ps[i] : i \in {k \in 1..Len(ps) :
                        /\ NodeAt(frag, ps[k]).cls = "note"
                        /\ \E j \in 1..Len(ps) :
                             /\ NodeAt(frag, ps[j]).cls = "verse"
                             /\ Below(ps[j], ps[k])}}

\* the record of the container at v: the label is None without a label
\* sub-element, the text is the container's own without a content sub-element
RecordOf(frag, v) ==
  LET notes == NotesInVerses(frag)
      labels == SelectBelow(frag, notes, v, "label")
      contents == SelectBelow(frag, notes, v, "content")
  IN  [verse |-> IF labels = <<>> THEN NoneStr
                 ELSE Str(strip(text(frag, notes, labels[1]))),
       text |-> get_text(frag, notes, IF contents = <<>> THEN v ELSE contents[1])]

\* C20: the extractor returns, in document order, the records of exactly the
\* verse containers whose text is not empty: the label is None when the
\* container has no label sub-element and the text is the container's own
\* when it has no content sub-element.
C20_Subsequence ==
  pc = "returned" =>
    LET vs == VerseContainers(markup)
        recs == [i \in 1..Len(vs) |-> RecordOf(markup, vs[i])]
        NonEmpty(r) == r.text # <<>>
    IN  extracted = SelectSeq(recs, NonEmpty)

\* a fragment of three containers: the first has no content sub-element and
\* gives its own text, the second has no label, the third lies in a footnote
\* of the second and is dropped
C20_Witness ==
  /\ pc = "returned"
  /\ markup = <<V_nocontent, V_innote>>
  /\ Len(VerseContainers(markup)) = 3
  /\ extracted = <<[verse |-> Str(<<"2">>), text |-> <<"2", " ", "c">>],
                   [verse |-> NoneStr, text |-> <<"i">>]>>

\* the characters of a string
Chars(s) == {s[i] : i \in 1..Len(s)}

\* the characters of the text that lies in a footnote inside a verse
\* container; every text node of the test nodes has characters of its own
FootnoteChars(frag) ==
  LET ps == Walk(frag, <<>>, 1)
  IN  UNION {Chars(NodeAt(frag, ps[i]).txt) :
               i \in {k \in 1..Len(ps) :
                        /\ NodeAt(frag, ps[k]).cls = "#text"
                        /\ \E n \in NotesInVerses(frag) : Below(n, ps[k])}}

\* C21: no text of a footnote that lies inside a verse container appears in
\* the text or the label of a record the extractor returns, also when verse
\* containers are nested and when the footnote is in the label or content.
C21_NoFootnoteText ==
  pc = "returned" =>
    \A i \in 1..Len(extracted) :
      /\ Chars(extracted[i].text) \cap FootnoteChars(markup) = {}
      /\ Chars(extracted[i].verse.s) \cap FootnoteChars(markup) = {}

\* a fragment with a footnote in a label, one in a content and one in the
\* content of a nested container: three records, none with footnote text
C21_Witness ==
  /\ pc = "returned"
  /\ markup = <<V_note, V_deep>>
  /\ FootnoteChars(markup) = {"n", "f", "p"}
  /\ extracted = <<[verse |-> Str(<<"4">>), text |-> <<"d", " ", "e">>],
                   [verse |-> Str(<<"6">>), text |-> <<"m">>],
                   [verse |-> NoneStr, text |-> <<"m">>]>>

====
